---- MODULE Spec2Model ----
(***************************************************************************)
(* Model of src/app.py: the zero-click analysis pipeline of                *)
(* SearchConsoleAnalyzer (filter, score, classify, rank), the keyword      *)
(* classifier categorize_query_type, and the Streamlit script main() with  *)
(* its session state and widgets.                                          *)
(*                                                                         *)
(* Numbers.  impressions and positions are integers.  A ctr is held in     *)
(* half percents (the step of the "Maximum CTR (%)" slider), so the 1 of   *)
(* "1 - ctr" is CtrOne here.  A float is an exact rational [k, n, d] in    *)
(* lowest terms, or one of the IEEE specials nan, inf, ninf that a         *)
(* division by zero produces in pandas; rounding is not modelled.          *)
(* A string is a sequence of one-character strings.                        *)
(***************************************************************************)
EXTENDS Integers, Sequences, FiniteSets

VARIABLES
    df,               \* the fetched frame: None, or a frame of rows
    min_impressions,  \* threshold of the last analysis
    max_ctr,          \* threshold of the last analysis, in half percents
    zero_click_df,    \* the frame returned by analyze_zero_click_potential
    status,           \* "idle", "ok" (the call returned) or "error" (it raised)
    query,            \* the string handed to categorize_query_type
    label,            \* its result, or NoLabel
    session,          \* st.session_state and the analyzer held in it
    widgets,          \* the widgets' values, kept by Streamlit across reruns
    rendered          \* the widgets the last run of main() put on the page

vars == <<df, min_impressions, max_ctr, zero_click_df, status, query, label,
          session, widgets, rendered>>

pipelineVars == <<df, min_impressions, max_ctr, zero_click_df, status>>
classifierVars == <<query, label>>
sessionVars == <<session, widgets, rendered>>

----------------------------------------------------------------------------
(* Bounds of the model *)

MaxRows == 2

MaxImp == 1

MaxWords == 3

ImpressionValues == 0 .. MaxImp

\* 1.0 as a ctr
CtrOne == 2 * 100

\* 0, 5% and 100%
CtrValues == {0, 10, CtrOne}

PositionValues == {1, 10, 11}

MinImpressionsValues == 0 .. MaxImp

\* 1% and 5%
MaxCtrValues == {2, 10}

\* a frame is None or holds a sequence of rows
None == [none |-> TRUE, rows |-> <<>>]

DataFrame(rows) == [none |-> FALSE, rows |-> rows]

NoLabel == "none"

----------------------------------------------------------------------------
(* Floats *)

Abs(a) == IF a < 0 THEN -a ELSE a

RECURSIVE GCD(_, _)
GCD(a, b) == IF b = 0 THEN a ELSE GCD(b, a % b)

NaN == [k |-> "nan", n |-> 0, d |-> 0]

PosInf == [k |-> "inf", n |-> 1, d |-> 0]

NegInf == [k |-> "ninf", n |-> -1, d |-> 0]

\* the rational n/d, d # 0, in lowest terms with a positive denominator
Fin(n, d) ==
    LET g == GCD(Abs(n), Abs(d))
        sgn == IF d < 0 THEN -1 ELSE 1
    IN  [k |-> "fin", n |-> (sgn * n) \div g, d |-> (sgn * d) \div g]

\* a / b on numbers: pandas gives nan for 0/0 and +-inf for x/0, and does not raise
FDiv(a, b) ==
    IF b # 0 THEN Fin(a, b)
    ELSE IF a = 0 THEN NaN
    ELSE IF a > 0 THEN PosInf
    ELSE NegInf

\* x * (wn/wd) for a positive weight
FScale(x, wn, wd) ==
    IF x.k = "fin" THEN Fin(x.n * wn, x.d * wd) ELSE x

FAdd(x, y) ==
    IF x.k = "nan" \/ y.k = "nan" THEN NaN
    ELSE IF x.k = "fin" /\ y.k = "fin" THEN Fin(x.n * y.d + y.n * x.d, x.d * y.d)
    ELSE IF x.k = "fin" THEN y
    ELSE IF y.k = "fin" THEN x
    ELSE IF x.k = y.k THEN x
    ELSE NaN

\* x < y as IEEE compares: false as soon as one side is nan
FLess(x, y) ==
    /\ x.k # "nan"
    /\ y.k # "nan"
    /\ \/ x.k = "ninf" /\ y.k # "ninf"
       \/ x.k = "fin" /\ y.k = "inf"
       \/ x.k = "fin" /\ y.k = "fin" /\ x.n * y.d < y.n * x.d

----------------------------------------------------------------------------
(* Strings *)

UpperCase == <<"A", "B", "C", "D", "E", "F", "G", "H", "I", "J", "K", "L", "M",
               "N", "O", "P", "Q", "R", "S", "T", "U", "V", "W", "X", "Y", "Z">>

LowerCase == <<"a", "b", "c", "d", "e", "f", "g", "h", "i", "j", "k", "l", "m",
               "n", "o", "p", "q", "r", "s", "t", "u", "v", "w", "x", "y", "z">>

ToLower ==
    [c \in {UpperCase[i] : i \in 1 .. 26} |->
        LowerCase[CHOOSE i \in 1 .. 26 : UpperCase[i] = c]]

LowerChar(c) == IF c \in DOMAIN ToLower THEN ToLower[c] ELSE c

\* str.lower()
Lower(s) == [i \in 1 .. Len(s) |-> LowerChar(s[i])]

\* word in s
Contains(s, word) ==
    \E off \in 0 .. (Len(s) - Len(word)) :
        \A i \in 1 .. Len(word) : s[off + i] = word[i]

\* s.startswith(word)
StartsWith(s, word) ==
    /\ Len(word) <= Len(s)
    /\ \A i \in 1 .. Len(word) : s[i] = word[i]

\* len(s.split()): the maximal runs of non-whitespace characters
TokenCount(s) ==
    Cardinality({i \in 1 .. Len(s) : s[i] # " " /\ (i = 1 \/ s[i - 1] = " ")})

----------------------------------------------------------------------------
(* categorize_query_type *)

question_words ==
    { <<"w", "h", "a", "t">>,
      <<"w", "h", "e", "n">>,
      <<"w", "h", "e", "r", "e">>,
      <<"w", "h", "o">>,
      <<"w", "h", "y">>,
      <<"h", "o", "w">>,
      <<"i", "s">>,
      <<"a", "r", "e">>,
      <<"c", "a", "n">>,
      <<"w", "i", "l", "l">>,
      <<"d", "o", "e", "s">> }

definition_words ==
    { <<"d", "e", "f", "i", "n", "e">>,
      <<"d", "e", "f", "i", "n", "i", "t", "i", "o", "n">>,
      <<"m", "e", "a", "n", "i", "n", "g">>,
      <<"w", "h", "a", "t", " ", "i", "s">>,
      <<"w", "h", "a", "t", " ", "a", "r", "e">> }

calculation_words ==
    { <<"c", "a", "l", "c", "u", "l", "a", "t", "e">>,
      <<"c", "o", "n", "v", "e", "r", "t">>,
      <<"c", "a", "l", "c", "u", "l", "a", "t", "o", "r">>,
      <<"f", "o", "r", "m", "u", "l", "a">>,
      <<"e", "q", "u", "a", "t", "i", "o", "n">> }

instant_answer_words ==
    { <<"w", "e", "a", "t", "h", "e", "r">>,
      <<"t", "i", "m", "e">>,
      <<"t", "e", "m", "p", "e", "r", "a", "t", "u", "r", "e">>,
      <<"f", "o", "r", "e", "c", "a", "s", "t">>,
      <<"h", "o", "u", "r", "s">>,
      <<"p", "h", "o", "n", "e", " ", "n", "u", "m", "b", "e", "r">>,
      <<"a", "d", "d", "r", "e", "s", "s">> }

\* the if-chain with the question test moved to the front
categorize_question_first(q) ==
    LET query_lower == Lower(q)
    IN  IF \E word \in question_words : StartsWith(query_lower, word)
        THEN "Question"
        ELSE IF \E word \in definition_words : Contains(query_lower, word)
        THEN "Definition/Information"
        ELSE IF \E word \in calculation_words : Contains(query_lower, word)
        THEN "Calculation/Conversion"
        ELSE IF \E word \in instant_answer_words : Contains(query_lower, word)
        THEN "Instant Answer"
        ELSE IF TokenCount(query_lower) <= 2
        THEN "Short Query"
        ELSE "Other"

categorize_query_type(q) ==
    LET query_lower == Lower(q)
    IN  IF \E word \in definition_words : Contains(query_lower, word)
        THEN "Definition/Information"
        ELSE IF \E word \in calculation_words : Contains(query_lower, word)
        THEN "Calculation/Conversion"
        ELSE IF \E word \in instant_answer_words : Contains(query_lower, word)
        THEN "Instant Answer"
        ELSE IF \E word \in question_words : StartsWith(query_lower, word)
        THEN "Question"
        ELSE IF TokenCount(query_lower) <= 2
        THEN "Short Query"
        ELSE "Other"

----------------------------------------------------------------------------
(* analyze_zero_click_potential *)

TopPosition == 10

DefaultMinImpressions == 100

DefaultMaxCtr == 10

\* the guard left out
IsEmptyInput_Never(d) == FALSE

\* "df is None or df.empty"
IsEmptyInput(d) == d.none \/ Len(d.rows) = 0

\* the three comparisons with one of them strict
PassesFilter_Strict(row, mi, mc) ==
    /\ row.impressions > mi
    /\ row.ctr <= mc
    /\ row.position <= TopPosition

PassesFilter(row, mi, mc) ==
    /\ row.impressions >= mi
    /\ row.ctr <= mc
    /\ row.position <= TopPosition

\* the rows of a frame with the index label pandas keeps on each of them
WithIndex(d) ==
    [i \in 1 .. Len(d.rows) |->
        [index |-> i, query |-> d.rows[i].query, clicks |-> d.rows[i].clicks,
         impressions |-> d.rows[i].impressions, ctr |-> d.rows[i].ctr,
         position |-> d.rows[i].position]]

\* df[mask].copy(): the selected rows, in the frame's order
FilterRows(d, mi, mc) ==
    LET Keep(row) == PassesFilter(row, mi, mc)
    IN  SelectSeq(WithIndex(d), Keep)

\* the frame after the call when the new columns are written through to it
FrameAfter_InPlace(d, scored) ==
    DataFrame(
        [i \in 1 .. Len(d.rows) |->
            IF \E j \in 1 .. Len(scored) : scored[j].index = i
            THEN LET j == CHOOSE j \in 1 .. Len(scored) : scored[j].index = i
                 IN  [query |-> d.rows[i].query, clicks |-> d.rows[i].clicks,
                      impressions |-> d.rows[i].impressions, ctr |-> d.rows[i].ctr,
                      position |-> d.rows[i].position,
                      zero_click_score |-> scored[j].zero_click_score,
                      query_type |-> scored[j].query_type]
            ELSE d.rows[i]])

\* the caller's frame after the call: the candidates are a copy, so the column
\* assignments reach the copy alone
FrameAfter(d, scored) == d

\* the extreme of the other end
MaxImpressions_Min(rows) ==
    CHOOSE m \in {rows[i].impressions : i \in 1 .. Len(rows)} :
        \A i \in 1 .. Len(rows) : rows[i].impressions >= m

\* rows['impressions'].max()
MaxImpressions(rows) ==
    CHOOSE m \in {rows[i].impressions : i \in 1 .. Len(rows)} :
        \A i \in 1 .. Len(rows) : rows[i].impressions <= m

\* rows['ctr'].min()
MinCtr(rows) ==
    CHOOSE m \in {rows[i].ctr : i \in 1 .. Len(rows)} :
        \A i \in 1 .. Len(rows) : rows[i].ctr >= m

\* the aggregates taken from the candidates instead of the whole frame
AggregateBase_Candidates(d, candidates) == candidates

\* the frame the two aggregates are taken from: df, not zero_click_candidates
AggregateBase(d, candidates) == d

\* the ctr term without the inversion
CtrTerm_NotInverted(ctr, minCtr) == FDiv(ctr, CtrOne - minCtr)

\* (1 - ctr) / (1 - df['ctr'].min())
CtrTerm(ctr, minCtr) == FDiv(CtrOne - ctr, CtrOne - minCtr)

ZeroClickScore(row, maxImp, minCtr) ==
    FAdd(FAdd(FScale(FDiv(row.impressions, maxImp), 4, 10),
              FScale(CtrTerm(row.ctr, minCtr), 4, 10)),
         FScale(FDiv(11 - row.position, 10), 2, 10))

\* the candidates with the two derived columns; the aggregates are evaluated
\* once, before any row's score
ScoreAndClassify(d, candidates) ==
    LET base == AggregateBase(WithIndex(d), candidates)
        maxImp == MaxImpressions(base)
        minCtr == MinCtr(base)
    IN  [j \in 1 .. Len(candidates) |->
            [index |-> candidates[j].index,
             query |-> candidates[j].query,
             clicks |-> candidates[j].clicks,
             impressions |-> candidates[j].impressions,
             ctr |-> candidates[j].ctr,
             position |-> candidates[j].position,
             zero_click_score |-> ZeroClickScore(candidates[j], maxImp, minCtr),
             query_type |-> categorize_query_type(candidates[j].query)]]

Permutations(n) ==
    {p \in [1 .. n -> 1 .. n] : \A a, b \in 1 .. n : a # b => p[a] # p[b]}

IsNaN(x) == x.k = "nan"

\* the orders an ascending sort may return
SortOrders_Ascending(rows) ==
    {p \in Permutations(Len(rows)) :
        \A a, b \in 1 .. Len(rows) :
            a < b =>
                LET x == rows[p[a]].zero_click_score
                    y == rows[p[b]].zero_click_score
                IN  /\ ~(IsNaN(x) /\ ~IsNaN(y))
                    /\ (IsNaN(x) /\ IsNaN(y)) => p[a] < p[b]
                    /\ ~FLess(y, x)}

\* the orders sort_values('zero_click_score', ascending=False) may return.
\* kind defaults to 'quicksort', which numpy documents as not stable: rows of
\* equal score come out in any order.  nan scores are placed last
\* (na_position='last'), in the order they had.
SortOrders(rows) ==
    {p \in Permutations(Len(rows)) :
        \A a, b \in 1 .. Len(rows) :
            a < b =>
                LET x == rows[p[a]].zero_click_score
                    y == rows[p[b]].zero_click_score
                IN  /\ ~(IsNaN(x) /\ ~IsNaN(y))
                    /\ (IsNaN(x) /\ IsNaN(y)) => p[a] < p[b]
                    /\ ~FLess(x, y)}

SortValues(rows) ==
    {[a \in 1 .. Len(rows) |-> rows[p[a]]] : p \in SortOrders(rows)}

\* The outcomes of one call: whether it returned or raised, the rows of the
\* returned frame, and the caller's frame afterwards.  Past the guard a None
\* cannot be subscripted and an empty DataFrame() has no 'impressions' column:
\* both raise.
analyze_zero_click_potential(d, mi, mc) ==
    IF IsEmptyInput(d)
    THEN {[status |-> "ok", rows |-> <<>>, frame |-> d]}
    ELSE IF d.none \/ Len(d.rows) = 0
    THEN {[status |-> "error", rows |-> <<>>, frame |-> d]}
    ELSE LET scored == ScoreAndClassify(d, FilterRows(d, mi, mc))
         IN  {[status |-> "ok", rows |-> sorted, frame |-> FrameAfter(d, scored)] :
                 sorted \in SortValues(scored)}

----------------------------------------------------------------------------
(* get_search_analytics_data *)

\* the query keys of a response, one per row and all different
ResponseKeys ==
    << <<"W", "h", "a", "t", " ", "i", "s", " ", "S", "E", "O">>,
       <<"s", "h", "o", "e", "s">>,
       <<"k", "m", " ", "t", "o", " ", "m", "i">>,
       <<"H", "o", "w", " ", "t", "o">> >>

KeyOfRow(i) == ResponseKeys[((i - 1) % Len(ResponseKeys)) + 1]

\* one row of the response turned into row_data
RowData(i, imp, ctr, pos) ==
    [query |-> KeyOfRow(i), clicks |-> (imp * ctr) \div CtrOne,
     impressions |-> imp, ctr |-> ctr, position |-> pos]

NotAnalysed ==
    /\ min_impressions' = DefaultMinImpressions
    /\ max_ctr' = DefaultMaxCtr
    /\ zero_click_df' = <<>>
    /\ status' = "idle"

\* no service, or the request raised: None is returned
FetchFails ==
    /\ ~df.none
    /\ df' = None
    /\ NotAnalysed
    /\ UNCHANGED <<classifierVars, sessionVars>>

\* a response without 'rows': an empty DataFrame()
FetchNoRows ==
    /\ df # DataFrame(<<>>)
    /\ df' = DataFrame(<<>>)
    /\ NotAnalysed
    /\ UNCHANGED <<classifierVars, sessionVars>>

\* the loop over response['rows'], one row per step; the frame is handed to
\* the analysis when the loop is over, and a new request starts from no rows
FetchRow ==
    /\ status = "idle"
    /\ ~df.none
    /\ Len(df.rows) < MaxRows
    /\ \E imp \in ImpressionValues, ctr \in CtrValues, pos \in PositionValues :
          df' = DataFrame(Append(df.rows, RowData(Len(df.rows) + 1, imp, ctr, pos)))
    /\ NotAnalysed
    /\ UNCHANGED <<classifierVars, sessionVars>>

\* a call of analyze_zero_click_potential(df, min_impressions, max_ctr)
Analyze ==
    /\ \E mi \in MinImpressionsValues, mc \in MaxCtrValues :
          \E out \in analyze_zero_click_potential(df, mi, mc) :
              /\ min_impressions' = mi
              /\ max_ctr' = mc
              /\ zero_click_df' = out.rows
              /\ status' = out.status
              /\ df' = out.frame
    /\ UNCHANGED <<classifierVars, sessionVars>>

----------------------------------------------------------------------------
(* The classifier on its own *)

Vocabulary ==
    { <<"w", "h", "a", "t">>,
      <<"W", "h", "a", "t">>,
      <<"i", "s">>,
      <<"m", "e", "a", "n", "i", "n", "g">>,
      <<"c", "o", "n", "v", "e", "r", "t">>,
      <<"s", "o", "m", "e", "t", "i", "m", "e", "s">>,
      <<"p", "h", "o", "n", "e">>,
      <<"n", "u", "m", "b", "e", "r">>,
      <<"i", "s", "l", "a", "n", "d">>,
      <<"b", "e", "s", "t">>,
      <<"g", "u", "i", "d", "e">> }

\* the caller extends the string by one word
TypeWord ==
    /\ TokenCount(query) < MaxWords
    /\ \E w \in Vocabulary :
          query' = IF query = <<>> THEN w ELSE query \o <<" ">> \o w
    /\ label' = NoLabel
    /\ UNCHANGED <<pipelineVars, sessionVars>>

ClearQuery ==
    /\ query # <<>>
    /\ query' = <<>>
    /\ label' = NoLabel
    /\ UNCHANGED <<pipelineVars, sessionVars>>

Categorize ==
    /\ label = NoLabel
    /\ label' = categorize_query_type(query)
    /\ UNCHANGED <<query, pipelineVars, sessionVars>>

----------------------------------------------------------------------------
(* main(): one run of the Streamlit script per user interaction *)

\* the positions of the "Minimum Impressions" slider: 50 to 1000 in steps of 50
MinImpressionsSlider == {50 * k : k \in 1 .. 20}

\* the positions of the "Maximum CTR (%)" slider: 1.0 to 10.0 in steps of 0.5
MaxCtrSlider == 2 .. 20

Events ==
    {"upload_valid", "upload_invalid", "remove_file", "type_redirect_url",
     "click_complete", "move_min_impressions", "move_max_ctr", "type_site_url",
     "click_analyze"}

\* what the page offers: a widget takes input only if the last run rendered it
Offered(ev) ==
    CASE ev = "type_redirect_url" -> "redirect_url" \in rendered
      [] ev = "click_complete" -> "complete_button" \in rendered
      [] ev = "type_site_url" -> "site_url" \in rendered
      [] ev = "click_analyze" -> "analyze_button" \in rendered
      [] OTHER -> TRUE

\* the interactions: the event, the slider position it sets (0: none) and
\* whether the token exchange it starts succeeds
Interactions ==
    {[ev |-> e, value |-> 0, exchange_ok |-> TRUE] :
        e \in Events \ {"move_min_impressions", "move_max_ctr"}}
    \cup {[ev |-> "click_complete", value |-> 0, exchange_ok |-> FALSE]}
    \cup {[ev |-> "move_min_impressions", value |-> v, exchange_ok |-> TRUE] :
              v \in MinImpressionsSlider}
    \cup {[ev |-> "move_max_ctr", value |-> v, exchange_ok |-> TRUE] :
              v \in MaxCtrSlider}

\* the widget values the run starts from
WidgetsOn(ev, value) ==
    CASE ev = "upload_valid" -> [widgets EXCEPT !.uploaded_file = "valid"]
      [] ev = "upload_invalid" -> [widgets EXCEPT !.uploaded_file = "invalid"]
      [] ev = "remove_file" -> [widgets EXCEPT !.uploaded_file = "none"]
      [] ev = "type_redirect_url" -> [widgets EXCEPT !.redirect_url = "url"]
      [] ev = "type_site_url" -> [widgets EXCEPT !.site_url = "url"]
      [] ev = "move_min_impressions" -> [widgets EXCEPT !.min_impressions = value]
      [] ev = "move_max_ctr" -> [widgets EXCEPT !.max_ctr = value]
      [] OTHER -> widgets

\* a widget that the last run did not render starts again from its default
TextValue(wid, prev, name) ==
    IF name \in prev THEN wid[name] ELSE ""

\* One run of main() from the top.  sess and wid are the session state and the
\* widget values it starts from, prev the widgets of the run before, ev the
\* interaction that caused it, exchange_ok whether fetch_token succeeds.
RunScript(sess, wid, prev, ev, exchange_ok) ==
    LET \* line 182
        enter == wid.uploaded_file # "none" /\ ~sess.flow
        \* authenticate_search_console returns (None, None) on a bad file
        flowMade == enter /\ wid.uploaded_file = "valid"
        sess1 == IF flowMade THEN [sess EXCEPT !.flow = TRUE] ELSE sess
        redirect_url == IF flowMade THEN TextValue(wid, prev, "redirect_url") ELSE ""
        showButton == flowMade /\ redirect_url # ""
        clicked == showButton /\ ev = "click_complete"
        authOk == clicked /\ exchange_ok
        sess2 == IF authOk
                 THEN [sess1 EXCEPT !.service = TRUE, !.authenticated = TRUE]
                 ELSE sess1
        sidebar == (IF flowMade THEN {"redirect_url"} ELSE {})
                       \cup (IF showButton THEN {"complete_button"} ELSE {})
        \* line 249
        site_url == IF sess2.authenticated THEN TextValue(wid, prev, "site_url") ELSE ""
        showAnalyze == sess2.authenticated /\ site_url # ""
        content == (IF sess2.authenticated THEN {"site_url"} ELSE {})
                       \cup (IF showAnalyze THEN {"analyze_button"} ELSE {})
        shown == IF authOk THEN sidebar ELSE sidebar \cup content
    IN  [session |-> sess2,
         widgets |-> [wid EXCEPT !.redirect_url = redirect_url, !.site_url = site_url],
         rendered |-> shown,
         rerun |-> authOk,
         analyze |-> ~authOk /\ showAnalyze /\ ev = "click_analyze"]

\* main() with the st.rerun() of line 210: the script starts over at once
main(sess, wid, prev, ev, exchange_ok) ==
    LET first == RunScript(sess, wid, prev, ev, exchange_ok)
    IN  IF first.rerun
        THEN RunScript(first.session, first.widgets, first.rendered, "rerun", exchange_ok)
        ELSE first

\* what get_search_analytics_data may hand to the analysis of line 262
FetchedFrames ==
    {None, DataFrame(<<>>)} \cup
    {DataFrame(<<RowData(1, imp, ctr, pos)>>) :
        imp \in ImpressionValues, ctr \in CtrValues, pos \in PositionValues}

\* the user does something on the page and Streamlit runs the script
UserInteracts ==
    /\ \E act \in Interactions :
          /\ Offered(act.ev)
          /\ LET run == main(session, WidgetsOn(act.ev, act.value), rendered,
                             act.ev, act.exchange_ok)
             IN  /\ session' = run.session
                 /\ widgets' = run.widgets
                 /\ rendered' = run.rendered
                 /\ IF run.analyze
                    THEN \E d \in FetchedFrames :
                            IF ~d.none /\ Len(d.rows) > 0
                            THEN \E out \in analyze_zero_click_potential(
                                               d, run.widgets.min_impressions,
                                               run.widgets.max_ctr) :
                                    /\ df' = out.frame
                                    /\ min_impressions' = run.widgets.min_impressions
                                    /\ max_ctr' = run.widgets.max_ctr
                                    /\ zero_click_df' = out.rows
                                    /\ status' = out.status
                            ELSE df' = d /\ NotAnalysed
                    ELSE UNCHANGED pipelineVars
    /\ UNCHANGED classifierVars

----------------------------------------------------------------------------
(* Specifications *)

Init ==
    /\ df = None
    /\ min_impressions = DefaultMinImpressions
    /\ max_ctr = DefaultMaxCtr
    /\ zero_click_df = <<>>
    /\ status = "idle"
    /\ query = <<>>
    /\ label = NoLabel
    /\ session = [flow |-> FALSE, authenticated |-> FALSE, service |-> FALSE]
    /\ widgets = [uploaded_file |-> "none", redirect_url |-> "", site_url |-> "",
                  min_impressions |-> 100, max_ctr |-> 10]
    /\ rendered = {}

\* the analysis pipeline, called on whatever a fetch delivers
Next == FetchFails \/ FetchNoRows \/ FetchRow \/ Analyze

Spec == Init /\ [][Next]_vars

\* the classifier, called on strings typed word by word
NextClassify == TypeWord \/ ClearQuery \/ Categorize

SpecClassify == Init /\ [][NextClassify]_vars

\* the interactive session
NextSession == UserInteracts

SpecSession == Init /\ [][NextSession]_vars

----------------------------------------------------------------------------
(* Properties *)

\* the call of analyze_zero_click_potential has returned a frame computed from
\* a frame with rows
Analysed == status = "ok" /\ ~df.none /\ Len(df.rows) > 0

InputIndex == 1 .. Len(df.rows)

OutputIndex == 1 .. Len(zero_click_df)

\* the rows of df that meet the three conditions of the claim, for the
\* thresholds of the call
Qualifying ==
    {i \in InputIndex :
        /\ df.rows[i].impressions >= min_impressions
        /\ df.rows[i].ctr <= max_ctr
        /\ df.rows[i].position <= 10}

\* the largest impressions and the smallest ctr of the whole frame
FullMaxImpressions ==
    CHOOSE m \in {df.rows[i].impressions : i \in InputIndex} :
        \A i \in InputIndex : df.rows[i].impressions <= m

FullMinCtr ==
    CHOOSE m \in {df.rows[i].ctr : i \in InputIndex} :
        \A i \in InputIndex : df.rows[i].ctr >= m

\* the returned rows are rows of df, each at most once
OutputIsSelection ==
    /\ \A j \in OutputIndex : zero_click_df[j].index \in InputIndex
    /\ \A a, b \in OutputIndex : a # b => zero_click_df[a].index # zero_click_df[b].index

\* C1: the returned rows are exactly the rows of the input with
\* impressions >= min_impressions, ctr <= max_ctr and position <= 10: each
\* returned row meets the three conditions and no row that meets them is missing.
C1_FilterExact ==
    Analysed =>
        /\ OutputIsSelection
        /\ \A j \in OutputIndex :
              /\ zero_click_df[j].impressions >= min_impressions
              /\ zero_click_df[j].ctr <= max_ctr
              /\ zero_click_df[j].position <= 10
        /\ {zero_click_df[j].index : j \in OutputIndex} = Qualifying

\* a row on all three boundaries was kept and another row was dropped
C1_Witness ==
    /\ Analysed
    /\ \E j \in OutputIndex :
          /\ zero_click_df[j].impressions = min_impressions
          /\ zero_click_df[j].ctr = max_ctr
          /\ zero_click_df[j].position = 10
    /\ Len(zero_click_df) < Len(df.rows)

\* score = 0.4*imp/M + 0.4*(1-ctr)/(1-m) + 0.2*(11-pos)/10, cleared of fractions
ScoreIsFormula(row, M, m) ==
    /\ row.zero_click_score.k = "fin"
    /\ row.zero_click_score.n * (100 * M * (CtrOne - m))
         = row.zero_click_score.d
             * (40 * row.impressions * (CtrOne - m)
                + 40 * (CtrOne - row.ctr) * M
                + 2 * (11 - row.position) * M * (CtrOne - m))

\* C2: a candidate's score is the weighted formula with max_impressions and
\* min_ctr taken over the whole, unfiltered frame (where one of the two makes a
\* denominator zero, the nan that the formula's 0/0 is); and a call on the same
\* frame with other thresholds gives every row it returns again the score it had.
C2_ScoreFromFullSet ==
    [][status' = "ok" =>
          /\ (~df'.none /\ Len(df'.rows) > 0) =>
                 \A j \in OutputIndex' :
                     IF FullMaxImpressions' # 0 /\ FullMinCtr' # CtrOne
                     THEN ScoreIsFormula(zero_click_df'[j], FullMaxImpressions',
                                         FullMinCtr')
                     ELSE zero_click_df'[j].zero_click_score.k = "nan"
          /\ (status = "ok" /\ df' = df) =>
                 \A a \in OutputIndex : \A b \in OutputIndex' :
                     zero_click_df[a].index = zero_click_df'[b].index =>
                         zero_click_df[a].zero_click_score
                             = zero_click_df'[b].zero_click_score]_vars

\* a candidate was scored while the row with the most impressions and the row
\* with the smallest ctr were both filtered out
C2_Witness ==
    /\ Analysed
    /\ Len(zero_click_df) > 0
    /\ \A j \in OutputIndex :
          /\ zero_click_df[j].impressions < FullMaxImpressions
          /\ zero_click_df[j].ctr > FullMinCtr
          /\ zero_click_df[j].zero_click_score.k = "fin"

ContainsAny(s, words) == \E w \in words : Contains(s, w)

StartsWithAny(s, words) == \E w \in words : StartsWith(s, w)

\* C3: every string gets exactly one of the six labels, the label of the first
\* rule that matches in the order Definition/Information, Calculation/Conversion,
\* Instant Answer, Question, Short Query, Other, matched on the lower-cased text.
C3_FirstMatchWins ==
    label # NoLabel =>
        LET q == Lower(query)
            r1 == ContainsAny(q, definition_words)
            r2 == ContainsAny(q, calculation_words)
            r3 == ContainsAny(q, instant_answer_words)
            r4 == StartsWithAny(q, question_words)
            r5 == TokenCount(q) <= 2
        IN  /\ label \in {"Definition/Information", "Calculation/Conversion",
                          "Instant Answer", "Question", "Short Query", "Other"}
            /\ label = "Definition/Information" <=> r1
            /\ label = "Calculation/Conversion" <=> (~r1 /\ r2)
            /\ label = "Instant Answer" <=> (~r1 /\ ~r2 /\ r3)
            /\ label = "Question" <=> (~r1 /\ ~r2 /\ ~r3 /\ r4)
            /\ label = "Short Query" <=> (~r1 /\ ~r2 /\ ~r3 /\ ~r4 /\ r5)
            /\ label = "Other" <=> (~r1 /\ ~r2 /\ ~r3 /\ ~r4 /\ ~r5)

\* a string written with a capital, which starts with a question word and
\* contains "what is", was labelled Definition/Information
C3_Witness ==
    /\ label = "Definition/Information"
    /\ query # Lower(query)
    /\ StartsWithAny(Lower(query), question_words)
    /\ Contains(Lower(query), <<"w", "h", "a", "t", " ", "i", "s">>)
    /\ ~Contains(query, <<"w", "h", "a", "t", " ", "i", "s">>)

\* no row of the result has a score below that of a later row
Descending ==
    \A a, b \in OutputIndex :
        a < b => ~FLess(zero_click_df[a].zero_click_score,
                        zero_click_df[b].zero_click_score)

\* rows of equal score keep the order they had in the input
TiesKeepInputOrder ==
    \A a, b \in OutputIndex :
        (a < b /\ zero_click_df[a].zero_click_score = zero_click_df[b].zero_click_score)
            => zero_click_df[a].index < zero_click_df[b].index

C5_DegenerateGuarded ==
    (status # "idle" /\ ~df.none /\ Len(df.rows) > 0
     /\ (FullMaxImpressions = 0 \/ FullMinCtr = CtrOne)) =>
        /\ status = "ok"
        /\ \A j \in OutputIndex : zero_click_df[j].zero_click_score.k = "fin"

\* C6: of two candidates of one result that differ in one field only, the one
\* with more impressions has a score not lower, the one with the higher ctr a
\* score not higher, the one with the higher position a score not higher.
C6_Monotone ==
    Analysed =>
        \A a, b \in OutputIndex :
            LET x == zero_click_df[a]
                y == zero_click_df[b]
            IN  /\ (x.impressions > y.impressions /\ x.ctr = y.ctr
                    /\ x.position = y.position)
                       => ~FLess(x.zero_click_score, y.zero_click_score)
                /\ (x.ctr > y.ctr /\ x.impressions = y.impressions
                    /\ x.position = y.position)
                       => ~FLess(y.zero_click_score, x.zero_click_score)
                /\ (x.position > y.position /\ x.impressions = y.impressions
                    /\ x.ctr = y.ctr)
                       => ~FLess(y.zero_click_score, x.zero_click_score)

\* two candidates that differ in ctr alone, the one with the smaller ctr
\* scored strictly higher
C6_Witness ==
    /\ Analysed
    /\ \E a, b \in OutputIndex :
          /\ zero_click_df[a].ctr > zero_click_df[b].ctr
          /\ zero_click_df[a].impressions = zero_click_df[b].impressions
          /\ zero_click_df[a].position = zero_click_df[b].position
          /\ FLess(zero_click_df[a].zero_click_score, zero_click_df[b].zero_click_score)

\* C7: on an absent frame, a frame without rows, or a frame whose rows all fail
\* the filter, the call returns an empty result and does not raise.
C7_EmptyNotError ==
    (status # "idle" /\ (df.none \/ Len(df.rows) = 0 \/ Qualifying = {})) =>
        /\ status = "ok"
        /\ zero_click_df = <<>>

\* the call returned on a frame with rows none of which passed the filter
C7_Witness ==
    /\ Analysed
    /\ Qualifying = {}
    /\ zero_click_df = <<>>

\* C8: the call leaves the input frame as it was, and each returned row carries
\* the query, impressions, clicks, ctr and position of the input row it came from.
C8_InputUntouched ==
    [][status' # "idle" =>
          /\ df' = df
          /\ (~df.none) =>
                \A j \in OutputIndex' :
                    LET out == zero_click_df'[j]
                    IN  /\ out.index \in InputIndex
                        /\ out.query = df.rows[out.index].query
                        /\ out.impressions = df.rows[out.index].impressions
                        /\ out.clicks = df.rows[out.index].clicks
                        /\ out.ctr = df.rows[out.index].ctr
                        /\ out.position = df.rows[out.index].position]_vars

\* a call returned two rows in another order than the input had them
C8_Witness ==
    /\ Analysed
    /\ Len(zero_click_df) = 2
    /\ zero_click_df[1].index > zero_click_df[2].index
    /\ zero_click_df[1].query = df.rows[zero_click_df[1].index].query

\* C9 as stated: while the flow is stored in the session and the session is not
\* authenticated, the page offers the redirect-URL field, and the completion
\* button once a URL is in the field.
C9_CompletionOffered ==
    (session.flow /\ ~session.authenticated /\ widgets.uploaded_file = "valid") =>
        /\ "redirect_url" \in rendered
        /\ widgets.redirect_url # "" => "complete_button" \in rendered

\* C10: on a frame of rows with impressions >= 0, ctr in [0,1] and position >= 1
\* whose max impressions is above 0 and whose min ctr is below 1, every returned
\* row has a score between 0 and 1.
C10_ScoreInUnitInterval ==
    (/\ Analysed
     /\ \A i \in InputIndex :
           /\ df.rows[i].impressions >= 0
           /\ df.rows[i].ctr >= 0 /\ df.rows[i].ctr <= CtrOne
           /\ df.rows[i].position >= 1
     /\ FullMaxImpressions > 0
     /\ FullMinCtr < CtrOne) =>
        \A j \in OutputIndex :
            /\ zero_click_df[j].zero_click_score.k = "fin"
            /\ 0 <= zero_click_df[j].zero_click_score.n
            /\ zero_click_df[j].zero_click_score.n <= zero_click_df[j].zero_click_score.d

\* one returned row reached the score 1 and another stayed below it
C10_Witness ==
    /\ Analysed
    /\ FullMaxImpressions > 0
    /\ FullMinCtr < CtrOne
    /\ \E a, b \in OutputIndex :
          /\ zero_click_df[a].zero_click_score = [k |-> "fin", n |-> 1, d |-> 1]
          /\ zero_click_df[b].zero_click_score.k = "fin"
          /\ zero_click_df[b].zero_click_score.n < zero_click_df[b].zero_click_score.d

\* what the session model shows next to C9: no run of main() ever sets
\* authenticated
NeverAuthenticated == ~session.authenticated /\ ~session.service

====
